---- MODULE Spec2Model ----
(***************************************************************************)
(* The api_tokens table and ApiToken::insert_with_scopes /                  *)
(* ApiToken::find_by_api_token of src/models/token.rs, run by concurrent    *)
(* request workers against one PostgreSQL store.                            *)
(*                                                                          *)
(* DependencyKind::from_sql of src/models/dependency.rs decodes one stored  *)
(* column value, and init of src/sentry/mod.rs reads the process            *)
(* environment once at startup.                                             *)
(*                                                                          *)
(* Option<T> is a sequence of length at most one: None is <<>> and Some(v)  *)
(* is <<v>>.  A string is a sequence of one-character strings.              *)
(***************************************************************************)
EXTENDS Integers, Sequences, FiniteSets, TLC

VARIABLES rows, issued, clock, dbMode, call, dep, sentry

vars == <<rows, issued, clock, dbMode, call, dep, sentry>>

\* The state of the token store and of its callers.
tokenVars == <<rows, issued, clock, dbMode, call>>

(* ------------------------------ bounds ---------------------------------- *)

\* Last value of the store's clock.
MaxClock == 1

\* The request workers, each running one find_by_api_token at a time.
Procs == {"w1", "w2"}

\* Secrets the token generator can draw.
Secrets == {<<"a">>, <<"b">>}

\* Owners of the tokens that insert(user_id, name) creates.
Users == {1}

\* Arguments of the insert_with_scopes calls: user_id, crate_scopes and
\* endpoint_scopes, each scope list None, empty or not.
InsertArgs ==
    { [user_id |-> 1, crate_scopes |-> <<>>, endpoint_scopes |-> <<>>],
      [user_id |-> 2, crate_scopes |-> << <<"serde">> >>, endpoint_scopes |-> << <<>> >>],
      [user_id |-> 1, crate_scopes |-> << <<>> >>, endpoint_scopes |-> << <<"publish">> >>] }

(* ------------------------------ Option ---------------------------------- *)

None == <<>>

Some(v) == <<v>>

(* --------------------------- SecureToken -------------------------------- *)

\* The literal prefix of the Api kind.
Prefix == <<"c", "i", "o">>

\* Length of the secret part of an Api token.
SecretLen == 1

\* Characters a secret may hold.
Charset == {"a", "b"}

Code(c) == CASE c = "a" -> 1 [] c = "b" -> 2 [] c = "c" -> 3
             [] c = "i" -> 4 [] c = "o" -> 5 [] OTHER -> 6

\* One-way digest of the secret characters (injective on the secrets drawn).
RECURSIVE Digest(_)
Digest(s) == IF s = <<>> THEN 7
             ELSE (31 * Digest(SubSeq(s, 1, Len(s) - 1)) + Code(s[Len(s)])) % 251

\* SecureToken::generate(kind), for the secret it drew: plaintext and digest.
Generate(secret) == [plaintext |-> Prefix \o secret, hashed |-> Digest(secret)]

\* SecureToken::parse(kind, presented): Some(digest of the secret part) or None.
Parse(presented) ==
    IF /\ Len(presented) = Len(Prefix) + SecretLen
       /\ SubSeq(presented, 1, Len(Prefix)) = Prefix
       /\ \A i \in (Len(Prefix) + 1)..Len(presented) : presented[i] \in Charset
    THEN Some(Digest(SubSeq(presented, Len(Prefix) + 1, Len(presented))))
    ELSE None

\* Strings a request may present: every well-formed token, a legacy unprefixed
\* one, one with another prefix, and one of the wrong length.
Presented ==
    {Prefix \o s : s \in Secrets}
        \cup {<<"a">>, <<"c", "i", "x", "a">>, <<"c", "i", "o", "a", "b">>}

(* ------------------------------ the store ------------------------------- *)

\* What the store does with a write: "writable" runs it, "read_only" rejects it.
DbModes == {"writable", "read_only"}

\* Column defaults of api_tokens for the columns an insert does not name.
ColumnDefaults(now) == [created_at |-> now, last_used_at |-> None, revoked |-> FALSE]

\* A table without the unique index.
UniqueViolationNever(d) == FALSE

\* The unique index on api_tokens.token rejects a second row with digest d.
UniqueViolation(d) == \E i \in 1..Len(rows) : rows[i].token = d

Min(S) == CHOOSE x \in S : \A y \in S : x <= y

(* ------------------------- results of a call ---------------------------- *)

NoResult == [kind |-> "None", err |-> "None", row |-> None]

Ok(r) == [kind |-> "Ok", err |-> "None", row |-> Some(r)]

Err(e) == [kind |-> "Err", err |-> e, row |-> None]

\* A worker between two calls.  token_ is the parsed token, txnNow the `now` of
\* the open transaction, pending the rows its uncommitted update wrote (and
\* holds locked), touchErr the failure of the touch transaction, seen what the
\* fallback read found in the store for the digest.
IdleCall == [pc |-> "idle", presented |-> <<>>, token_ |-> None, txnNow |-> 0,
             pending |-> {}, touchErr |-> "None", seen |-> "none",
             result |-> NoResult]

\* No token issued, no call in progress.
InitTokens ==
    /\ rows = <<>>
    /\ issued = <<>>
    /\ clock = 0
    /\ dbMode = "writable"
    /\ call = [p \in Procs |-> IdleCall]

\* An environment variable: absent, or present with a value that is valid
\* Unicode or not.
NotPresent == [present |-> FALSE, unicode |-> TRUE, value |-> <<>>]

NotUnicode == [present |-> TRUE, unicode |-> FALSE, value |-> <<>>]

Str(s) == [present |-> TRUE, unicode |-> TRUE, value |-> s]

VarNames == {"SENTRY_DSN_API", "SENTRY_ENV_API", "HEROKU_SLUG_COMMIT",
             "SENTRY_TRACES_SAMPLE_RATE"}

\* A process that has not called init yet, with environment e.
NotStarted(e) == [pc |-> "start", env |-> e, opts |-> None, panic |-> ""]

\* No column value fetched.
NoColumn == [bytes |-> <<>>, result |-> NoResult]

Init ==
    /\ InitTokens
    /\ dep = NoColumn
    /\ sentry = NotStarted([k \in VarNames |-> NotPresent])

(* ------------------------------ environment ----------------------------- *)

Tick ==
    /\ clock < MaxClock
    /\ clock' = clock + 1
    /\ UNCHANGED <<rows, issued, dbMode, call, dep, sentry>>

SetDbMode ==
    /\ \E m \in DbModes \ {dbMode} : dbMode' = m
    /\ UNCHANGED <<rows, issued, clock, call, dep, sentry>>

(* --------------------------- insert_with_scopes ------------------------- *)

\* The CreatedApiToken of an insert that stored `model` for the generated token.
CreatedApiToken(token, model) == [plaintext |-> token.plaintext, model |-> model]

\* The row an insert writes and returns, for the token column value `hashed`.
NewRow(user_id, hashed, crate_scopes, endpoint_scopes) ==
    LET dflt == ColumnDefaults(clock)
    IN [id |-> Len(rows) + 1,
        user_id |-> user_id,
        token |-> hashed,
        name |-> "tok",
        created_at |-> dflt.created_at,
        last_used_at |-> dflt.last_used_at,
        revoked |-> dflt.revoked,
        crate_scopes |-> crate_scopes,
        endpoint_scopes |-> endpoint_scopes]

\* An insert that stores the digest of the whole plaintext, prefix included.
InsertHashingPlaintext(user_id, crate_scopes, endpoint_scopes) ==
    /\ dbMode = "writable"
    /\ \E secret \in Secrets :
         LET token == Generate(secret)
             model == NewRow(user_id, Digest(token.plaintext), crate_scopes,
                             endpoint_scopes)
         IN /\ ~UniqueViolation(model.token)
            /\ rows' = Append(rows, model)
            /\ issued' = Append(issued, CreatedApiToken(token, model))
    /\ UNCHANGED <<clock, dbMode, call, dep, sentry>>

\* An insert that also names last_used_at, setting it to now.
InsertSettingLastUsed(user_id, crate_scopes, endpoint_scopes) ==
    /\ dbMode = "writable"
    /\ \E secret \in Secrets :
         LET token == Generate(secret)
             model == [NewRow(user_id, token.hashed, crate_scopes, endpoint_scopes)
                         EXCEPT !.last_used_at = Some(clock)]
         IN /\ ~UniqueViolation(token.hashed)
            /\ rows' = Append(rows, model)
            /\ issued' = Append(issued, CreatedApiToken(token, model))
    /\ UNCHANGED <<clock, dbMode, call, dep, sentry>>

\* An insert that stores an empty scope list as NULL.
InsertConflatingEmpty(user_id, crate_scopes, endpoint_scopes) ==
    /\ dbMode = "writable"
    /\ \E secret \in Secrets :
         LET token == Generate(secret)
             model == NewRow(user_id, token.hashed,
                             IF crate_scopes = Some(<<>>) THEN None ELSE crate_scopes,
                             IF endpoint_scopes = Some(<<>>) THEN None
                             ELSE endpoint_scopes)
         IN /\ ~UniqueViolation(token.hashed)
            /\ rows' = Append(rows, model)
            /\ issued' = Append(issued, CreatedApiToken(token, model))
    /\ UNCHANGED <<clock, dbMode, call, dep, sentry>>

\* insert_with_scopes(conn, user_id, name, crate_scopes, endpoint_scopes).
\* An insert the store rejects (`?`) writes nothing and returns no token.
insert_with_scopes(user_id, crate_scopes, endpoint_scopes) ==
    /\ dbMode = "writable"
    /\ \E secret \in Secrets :
         LET token == Generate(secret)
             model == NewRow(user_id, token.hashed, crate_scopes, endpoint_scopes)
         IN /\ ~UniqueViolation(token.hashed)
            /\ rows' = Append(rows, model)
            /\ issued' = Append(issued, CreatedApiToken(token, model))
    /\ UNCHANGED <<clock, dbMode, call, dep, sentry>>

\* insert(conn, user_id, name)
insert(user_id) == insert_with_scopes(user_id, None, None)

(* -------------------------------- revoke -------------------------------- *)

Locked(i) == \E p \in Procs : i \in call[p].pending

\* revoke(token_id): the one-way transition to revoked = true.  It waits for
\* the row lock of an uncommitted update.
Revoke ==
    /\ dbMode = "writable"
    /\ \E i \in 1..Len(rows) :
         /\ ~rows[i].revoked
         /\ ~Locked(i)
         /\ rows' = [rows EXCEPT ![i].revoked = TRUE]
    /\ UNCHANGED <<issued, clock, dbMode, call, dep, sentry>>

(* --------------------------- find_by_api_token -------------------------- *)

\* The query without .filter(revoked.eq(false)).
TokensIgnoringRevoked(d) == {i \in 1..Len(rows) : rows[i].token = d}

\* The query without .filter(token.eq(&token_)).
TokensAnyToken(d) == {i \in 1..Len(rows) : rows[i].revoked = FALSE}

\* api_tokens.filter(revoked.eq(false)).filter(token.eq(&token_)): the ids of
\* the committed rows the query selects.
Tokens(d) == {i \in 1..Len(rows) : rows[i].revoked = FALSE /\ rows[i].token = d}

\* The call without the `?` on the parse: a string that does not parse is
\* looked up by the digest of all its characters.
FindBeginLooksUpAnyway(p) ==
    /\ call[p].pc = "idle"
    /\ \E s \in Presented :
         call' = [call EXCEPT ![p] =
                    [IdleCall EXCEPT !.pc = "in_txn", !.presented = s,
                       !.token_ = IF Parse(s) = None THEN Some(Digest(s))
                                  ELSE Parse(s),
                       !.txnNow = clock]]
    /\ UNCHANGED <<rows, issued, clock, dbMode, dep, sentry>>

\* SecureToken::parse(...).ok_or_else(InsecurelyGeneratedTokenRevoked::boxed)?
\* and, for a token that parsed, the BEGIN of conn.transaction.
FindBegin(p) ==
    /\ call[p].pc = "idle"
    /\ \E s \in Presented :
         call' = [call EXCEPT ![p] =
                    IF Parse(s) = None
                    THEN [IdleCall EXCEPT !.pc = "done", !.presented = s,
                            !.result = Err("InsecurelyGeneratedTokenRevoked")]
                    ELSE [IdleCall EXCEPT !.pc = "in_txn", !.presented = s,
                            !.token_ = Parse(s), !.txnNow = clock]]
    /\ UNCHANGED <<rows, issued, clock, dbMode, dep, sentry>>

\* The failure classes of a statement of the touch transaction: the store is
\* read-only, or anything else (a timeout, a lost connection, ...).
FailureClasses == IF dbMode = "read_only" THEN {"ReadOnly", "Other"} ELSE {"Other"}

\* update(tokens)...get_result fails: the transaction rolls back and or_else
\* goes on to the read, whatever the failure.
TouchFails(p) ==
    /\ call[p].pc = "in_txn"
    /\ \E e \in FailureClasses :
         call' = [call EXCEPT ![p].pc = "fallback", ![p].touchErr = e,
                              ![p].txnNow = 0]
    /\ UNCHANGED <<rows, issued, clock, dbMode, dep, sentry>>

\* update(tokens) matches no row: get_result is Err(NotFound).
TouchNotFound(p) ==
    /\ call[p].pc = "in_txn"
    /\ dbMode = "writable"
    /\ Tokens(call[p].token_[1]) = {}
    /\ call' = [call EXCEPT ![p].pc = "fallback", ![p].touchErr = "NotFound",
                            ![p].txnNow = 0]
    /\ UNCHANGED <<rows, issued, clock, dbMode, dep, sentry>>

\* The update run outside a transaction: its write is visible at once.
TouchUpdateAutocommit(p) ==
    /\ call[p].pc = "in_txn"
    /\ dbMode = "writable"
    /\ Tokens(call[p].token_[1]) # {}
    /\ \A i \in Tokens(call[p].token_[1]) : ~Locked(i)
    /\ rows' = [i \in 1..Len(rows) |->
                  IF i \in Tokens(call[p].token_[1])
                  THEN [rows[i] EXCEPT !.last_used_at = Some(call[p].txnNow)]
                  ELSE rows[i]]
    /\ call' = [call EXCEPT ![p].pc = "updated",
                            ![p].pending = Tokens(call[p].token_[1])]
    /\ UNCHANGED <<issued, clock, dbMode, dep, sentry>>

\* update(tokens).set(last_used_at.eq(now.nullable())): writes the matched
\* rows in the open transaction, once no other transaction holds their locks.
TouchUpdate(p) ==
    /\ call[p].pc = "in_txn"
    /\ dbMode = "writable"
    /\ Tokens(call[p].token_[1]) # {}
    /\ \A i \in Tokens(call[p].token_[1]) : ~Locked(i)
    /\ call' = [call EXCEPT ![p].pc = "updated",
                            ![p].pending = Tokens(call[p].token_[1])]
    /\ UNCHANGED <<rows, issued, clock, dbMode, dep, sentry>>

\* A touch that returns the row as it was read before the update.
TouchCommitReturningOld(p) ==
    /\ call[p].pc = "updated"
    /\ rows' = [i \in 1..Len(rows) |->
                  IF i \in call[p].pending
                  THEN [rows[i] EXCEPT !.last_used_at = Some(call[p].txnNow)]
                  ELSE rows[i]]
    /\ call' = [call EXCEPT ![p].pc = "done", ![p].pending = {},
                            ![p].txnNow = 0, ![p].token_ = None,
                            ![p].seen = "active",
                            ![p].result = Ok(rows[Min(call[p].pending)])]
    /\ UNCHANGED <<issued, clock, dbMode, dep, sentry>>

\* COMMIT of the touch transaction: the write becomes visible and the call
\* returns the first updated row.
TouchCommit(p) ==
    /\ call[p].pc = "updated"
    /\ rows' = [i \in 1..Len(rows) |->
                  IF i \in call[p].pending
                  THEN [rows[i] EXCEPT !.last_used_at = Some(call[p].txnNow)]
                  ELSE rows[i]]
    /\ call' = [call EXCEPT ![p].pc = "done", ![p].pending = {},
                            ![p].txnNow = 0, ![p].token_ = None,
                            ![p].seen = "active",
                            ![p].result = Ok(rows'[Min(call[p].pending)])]
    /\ UNCHANGED <<issued, clock, dbMode, dep, sentry>>

\* The transaction fails after its update and rolls back.
TouchAbort(p) ==
    /\ call[p].pc = "updated"
    /\ call' = [call EXCEPT ![p].pc = "fallback", ![p].touchErr = "Other",
                            ![p].pending = {}, ![p].txnNow = 0]
    /\ UNCHANGED <<rows, issued, clock, dbMode, dep, sentry>>

\* The call without .or_else(...): the failure of the touch is the call's.
FallbackReadPropagates(p) ==
    /\ call[p].pc = "fallback"
    /\ call' = [call EXCEPT ![p].pc = "done", ![p].token_ = None,
                            ![p].result = Err(call[p].touchErr),
                            ![p].touchErr = "None"]
    /\ UNCHANGED <<rows, issued, clock, dbMode, dep, sentry>>

\* The read without the revoked filter.
FallbackReadIgnoringRevoked(p) ==
    /\ call[p].pc = "fallback"
    /\ LET d == call[p].token_[1]
       IN call' = [call EXCEPT ![p] =
             IF TokensIgnoringRevoked(d) = {}
             THEN [@ EXCEPT !.pc = "done", !.token_ = None,
                     !.touchErr = "None", !.result = Err("NotFound"),
                     !.seen = "absent"]
             ELSE [@ EXCEPT !.pc = "done", !.token_ = None,
                     !.touchErr = "None", !.seen = "active",
                     !.result = Ok(rows[Min(TokensIgnoringRevoked(d))])]]
    /\ UNCHANGED <<rows, issued, clock, dbMode, dep, sentry>>

\* The read without the revoked filter, telling the caller of a revoked row.
FallbackReadTellsRevoked(p) ==
    /\ call[p].pc = "fallback"
    /\ LET d == call[p].token_[1]
       IN call' = [call EXCEPT ![p] =
             IF TokensIgnoringRevoked(d) = {}
             THEN [@ EXCEPT !.pc = "done", !.token_ = None,
                     !.touchErr = "None", !.result = Err("NotFound"),
                     !.seen = "absent"]
             ELSE IF rows[Min(TokensIgnoringRevoked(d))].revoked
             THEN [@ EXCEPT !.pc = "done", !.token_ = None,
                     !.touchErr = "None", !.result = Err("Revoked"),
                     !.seen = "revoked"]
             ELSE [@ EXCEPT !.pc = "done", !.token_ = None,
                     !.touchErr = "None", !.seen = "active",
                     !.result = Ok(rows[Min(TokensIgnoringRevoked(d))])]]
    /\ UNCHANGED <<rows, issued, clock, dbMode, dep, sentry>>

\* .or_else(|_| tokens.first(conn)).map_err(Into::into), when the read runs.
FallbackRead(p) ==
    /\ call[p].pc = "fallback"
    /\ LET d == call[p].token_[1]
       IN call' = [call EXCEPT ![p] =
             IF Tokens(d) = {}
             THEN [@ EXCEPT !.pc = "done", !.token_ = None,
                     !.touchErr = "None", !.result = Err("NotFound"),
                     !.seen = IF UniqueViolation(d) THEN "revoked" ELSE "absent"]
             ELSE [@ EXCEPT !.pc = "done", !.token_ = None,
                     !.touchErr = "None", !.seen = "active",
                     !.result = Ok(rows[Min(Tokens(d))])]]
    /\ UNCHANGED <<rows, issued, clock, dbMode, dep, sentry>>

\* The read fails too (the store cannot be reached): its error is the call's.
FallbackFails(p) ==
    /\ call[p].pc = "fallback"
    /\ call' = [call EXCEPT ![p].pc = "done", ![p].token_ = None,
                            ![p].touchErr = "None",
                            ![p].result = Err("DatabaseError")]
    /\ UNCHANGED <<rows, issued, clock, dbMode, dep, sentry>>

\* The call has returned; the worker takes its next request.
FindReturn(p) ==
    /\ call[p].pc = "done"
    /\ call' = [call EXCEPT ![p] = IdleCall]
    /\ UNCHANGED <<rows, issued, clock, dbMode, dep, sentry>>

find_by_api_token(p) ==
    \/ FindBegin(p)
    \/ TouchFails(p)
    \/ TouchNotFound(p)
    \/ TouchUpdate(p)
    \/ TouchCommit(p)
    \/ TouchAbort(p)
    \/ FallbackRead(p)
    \/ FallbackFails(p)
    \/ FindReturn(p)

\* Concurrent workers authenticating with tokens made by insert.
Next ==
    \/ Tick
    \/ SetDbMode
    \/ \E u \in Users : insert(u)
    \/ Revoke
    \/ \E p \in Procs : find_by_api_token(p)

Spec == Init /\ [][Next]_vars

\* One worker authenticating with tokens made by insert and insert_with_scopes.
NextScopes ==
    \/ Tick
    \/ SetDbMode
    \/ \E u \in Users : insert(u)
    \/ \E a \in InsertArgs :
         insert_with_scopes(a.user_id, a.crate_scopes, a.endpoint_scopes)
    \/ Revoke
    \/ find_by_api_token("w1")

SpecScopes == Init /\ [][NextScopes]_vars

(* --------------------------- DependencyKind ----------------------------- *)

\* Longest column value fetched.
MaxBytes == 5

\* Values of one byte of a column value.
ByteValues == {0, 1, 2, 3, 255}

\* The column values a query can hand to from_sql.
Columns == UNION {[1..n -> ByteValues] : n \in 0..MaxBytes}

\* #[repr(u32)] enum DependencyKind: the declared discriminants.
DependencyKind == {"Normal", "Build", "Dev"}

Discriminant(v) == CASE v = "Normal" -> 0 [] v = "Build" -> 1 [] v = "Dev" -> 2

\* <i32 as FromSql<Integer, Pg>>::from_sql: four bytes in network order, two's
\* complement; any other length is an error.
i32_from_sql(bytes) ==
    IF Len(bytes) # 4 THEN Err("InvalidSize")
    ELSE LET high == IF bytes[1] >= 128 THEN bytes[1] - 256 ELSE bytes[1]
         IN Ok(((high * 256 + bytes[2]) * 256 + bytes[3]) * 256 + bytes[4])

\* A decoder whose last arm falls back to a variant.
from_sql_defaulting(bytes) ==
    LET r == i32_from_sql(bytes)
    IN IF r.kind = "Err" THEN r
       ELSE LET n == r.row[1]
            IN CASE n = 0 -> Ok("Normal")
                 [] n = 1 -> Ok("Build")
                 [] n = 2 -> Ok("Dev")
                 [] OTHER -> Ok("Normal")

\* DependencyKind::from_sql.
from_sql(bytes) ==
    LET r == i32_from_sql(bytes)
    IN IF r.kind = "Err" THEN r
       ELSE LET n == r.row[1]
            IN CASE n = 0 -> Ok("Normal")
                 [] n = 1 -> Ok("Build")
                 [] n = 2 -> Ok("Dev")
                 [] OTHER -> Err(<<"unknown kind: ", n>>)

InitKind ==
    /\ InitTokens
    /\ sentry = NotStarted([k \in VarNames |-> NotPresent])
    /\ \E bytes \in Columns : dep = [bytes |-> bytes, result |-> NoResult]

\* The query decodes the kind column of the row it fetched.
LoadKind ==
    /\ dep.result = NoResult
    /\ dep' = [dep EXCEPT !.result = from_sql(dep.bytes)]
    /\ UNCHANGED <<tokenVars, sentry>>

NextKind == LoadKind

SpecKind == InitKind /\ [][NextKind]_vars

(* -------------------------------- sentry -------------------------------- *)

\* dotenv::var(key) in environment e.
var(e, key) ==
    IF ~e[key].present THEN Err("NotPresent")
    ELSE IF ~e[key].unicode THEN Err("NotUnicode")
    ELSE Ok(e[key].value)

\* Result::ok
ok(r) == r.row

\* A DSN string scheme://public_key@host/project_id, cut into its parts.
Dsn_from_str(s) ==
    IF /\ Len(s) = 7
       /\ s[1] \in {"http", "https"}
       /\ s[2] = "://"
       /\ s[4] = "@"
       /\ s[6] = "/"
       /\ \A i \in {3, 5, 7} : s[i] \notin {"", "://", "@", "/"}
    THEN Ok([scheme |-> s[1], public_key |-> s[3], host |-> s[5],
             project_id |-> s[7]])
    ELSE Err("ParseDsnError")

\* IntoDsn for Option<String>: no value and the empty string are no DSN.
into_dsn(o) ==
    IF o = None THEN Ok(None)
    ELSE IF o[1] = <<>> THEN Ok(None)
    ELSE LET r == Dsn_from_str(o[1])
         IN IF r.kind = "Err" THEN r ELSE Ok(Some(r.row[1]))

\* Sample rates in thousandths.
ParseRate(s) == CASE s = <<"0.5">> -> 500 [] s = <<"1">> -> 1000 [] OTHER -> 0

\* env_optional(key): the parsed value of a variable that is present.
env_optional(e, key) ==
    IF var(e, key).kind = "Err" THEN None
    ELSE Some(ParseRate(var(e, key).row[1]))

unwrap_or(o, d) == IF o = None THEN d ELSE o[1]

traces_sampler(traces_sample_rate, is_download_endpoint) ==
    IF is_download_endpoint THEN traces_sample_rate \div 10
    ELSE traces_sample_rate

ClientOptions(dsn, environment, release, traces_sample_rate) ==
    [auto_session_tracking |-> TRUE,
     dsn |-> dsn,
     environment |-> environment,
     release |-> release,
     session_mode |-> "Request",
     traces_sampler |-> [d \in BOOLEAN |-> traces_sampler(traces_sample_rate, d)]]

\* Values of the variables at startup.
DsnValues == {NotPresent, NotUnicode, Str(<<>>),
              Str(<<"https", "://", "key", "@", "sentry.io", "/", "1">>),
              Str(<<"https", "://", "sentry.io", "/", "1">>),
              Str(<<"production">>)}

EnvValues == {NotPresent, NotUnicode, Str(<<"production">>), Str(<<>>)}

SlugValues == {NotPresent, NotUnicode, Str(<<"0123abc">>)}

RateValues == {NotPresent, Str(<<"0.5">>)}

InitSentry ==
    /\ InitTokens
    /\ dep = NoColumn
    /\ \E d \in DsnValues, v \in EnvValues, c \in SlugValues, r \in RateValues :
         sentry = NotStarted([k \in VarNames |->
                     CASE k = "SENTRY_DSN_API" -> d
                       [] k = "SENTRY_ENV_API" -> v
                       [] k = "HEROKU_SLUG_COMMIT" -> c
                       [] k = "SENTRY_TRACES_SAMPLE_RATE" -> r])

\* expect() on an Err: the process aborts with the message.
Panic(msg) == sentry' = [sentry EXCEPT !.pc = "panicked", !.panic = msg]

\* sentry::init()
init ==
    /\ sentry.pc = "start"
    /\ LET e == sentry.env
           dsn == into_dsn(ok(var(e, "SENTRY_DSN_API")))
           environment == var(e, "SENTRY_ENV_API")
           release == ok(var(e, "HEROKU_SLUG_COMMIT"))
           traces_sample_rate ==
               unwrap_or(env_optional(e, "SENTRY_TRACES_SAMPLE_RATE"), 0)
       IN IF dsn.kind = "Err"
          THEN Panic("SENTRY_DSN_API is not a valid Sentry DSN value")
          ELSE IF dsn.row[1] # None /\ environment.kind = "Err"
          THEN Panic("SENTRY_ENV_API must be set when using SENTRY_DSN_API")
          ELSE sentry' = [sentry EXCEPT
                 !.pc = "initialized",
                 !.opts = Some(ClientOptions(
                             dsn.row[1],
                             IF dsn.row[1] = None THEN None ELSE ok(environment),
                             release, traces_sample_rate))]
    /\ UNCHANGED <<tokenVars, dep>>

NextSentry == init

SpecSentry == InitSentry /\ [][NextSentry]_vars

(* ------------------------------- properties ----------------------------- *)

\* The step completes the call of worker p.
Completes(p) == call[p].pc # "done" /\ call'[p].pc = "done"

\* The ids of the rows, revoked or not, whose hashed secret is the digest of s.
RowsOf(s) == IF Parse(s) = None THEN {}
             ELSE {i \in 1..Len(rows) : rows[i].token = Parse(s)[1]}

\* C1: a call that completes while the row of the presented plaintext is
\* revoked never returns a row; it reports NotFound (or, when the store cannot
\* be read at all, the error of the read), on the touch path and on the
\* fallback path.
C1_RevokedIsNotFound ==
    [][\A p \in Procs :
         (Completes(p) /\ \E i \in RowsOf(call'[p].presented) : rows[i].revoked)
             => /\ call'[p].result.kind = "Err"
                /\ call'[p].result.err \in {"NotFound", "DatabaseError"}]_vars

C1_Witness ==
    \E p \in Procs :
        /\ call[p].pc = "done"
        /\ call[p].result = Err("NotFound")
        /\ call[p].seen = "revoked"
        /\ \E i \in RowsOf(call[p].presented) : rows[i].revoked

\* C2: the row a call returns is non-revoked and its hashed secret is the
\* digest of the presented string.
C2_ReturnedRowMatchesDigest ==
    \A p \in Procs :
        (call[p].pc = "done" /\ call[p].result.kind = "Ok")
            => /\ Parse(call[p].presented) = Some(call[p].result.row[1].token)
               /\ call[p].result.row[1].revoked = FALSE

C2_Witness ==
    \E p \in Procs :
        /\ call[p].pc = "done"
        /\ call[p].result.kind = "Ok"
        /\ \E i \in 1..Len(rows) :
             rows[i].revoked = FALSE /\ rows[i].token # call[p].result.row[1].token

\* C3: on a read-only store the touch of a parsed token fails without changing
\* a row and without ending the call; the read that follows returns the stored
\* non-revoked row of the token as it is, last_used_at included, and changes no
\* row (only a read that itself fails gives an error, that of the read).
C3_ReadOnlyFallbackReturnsToken ==
    [][\A p \in Procs :
         /\ (call[p].pc = "in_txn" /\ dbMode = "read_only" /\ call'[p] # call[p])
               => (call'[p].pc = "fallback" /\ rows' = rows)
         /\ (/\ call[p].pc = "fallback"
             /\ call[p].touchErr = "ReadOnly"
             /\ dbMode = "read_only"
             /\ Completes(p))
               => /\ rows' = rows
                  /\ \A i \in RowsOf(call[p].presented) :
                       ~rows[i].revoked
                           => \/ call'[p].result = Ok(rows[i])
                              \/ call'[p].result = Err("DatabaseError")]_vars

C3_Witness ==
    \E p \in Procs :
        /\ dbMode = "read_only"
        /\ call[p].pc = "done"
        /\ call[p].result.kind = "Ok"
        /\ call[p].result.row[1].last_used_at = None
        /\ rows[call[p].result.row[1].id] = call[p].result.row[1]

\* C4: a touch that fails for a failure class other than read-only is not
\* retried as a read: the call ends with a store error, never with a returned
\* token and never with NotFound.
C4_OtherFailurePropagates ==
    [][\A p \in Procs :
         (call[p].pc = "fallback" /\ call[p].touchErr = "Other" /\ Completes(p))
             => /\ call'[p].result.kind = "Err"
                /\ call'[p].result.err # "NotFound"]_vars

\* C5: every overwrite of a row's last_used_at stores a value greater than or
\* equal to the previous one.
C5_LastUsedNeverDecreases ==
    [][\A i \in 1..Len(rows) :
         rows[i].last_used_at # None
             => /\ rows'[i].last_used_at # None
                /\ rows'[i].last_used_at[1] >= rows[i].last_used_at[1]]_vars

\* C6: a call that presents the plaintext an insert returned and completes
\* while that insert's row is not revoked returns exactly that row, with the
\* id, owner and digest the insert returned (unless the read itself fails).
C6_IssuedPlaintextFindsItsRow ==
    [][\A p \in Procs : \A i \in 1..Len(rows) :
         (/\ Completes(p)
          /\ call'[p].presented = issued[i].plaintext
          /\ ~rows[i].revoked)
             => \/ call'[p].result = Err("DatabaseError")
                \/ /\ call'[p].result.kind = "Ok"
                   /\ call'[p].result.row[1].id = issued[i].model.id
                   /\ call'[p].result.row[1].user_id = issued[i].model.user_id
                   /\ call'[p].result.row[1].token = issued[i].model.token]_vars

C6_Witness ==
    \E p \in Procs : \E i, j \in 1..Len(rows) :
        /\ i # j
        /\ rows[i].user_id # rows[j].user_id
        /\ call[p].pc = "done"
        /\ call[p].presented = issued[i].plaintext
        /\ call[p].result.kind = "Ok"
        /\ call[p].result.row[1].id = i

\* C7: a call whose read found no row for the digest and a call whose read
\* found only a revoked row for it end with the identical result.
C7_AbsentAndRevokedAlike ==
    \A p, q \in Procs :
        (/\ call[p].pc = "done" /\ call[p].seen = "absent"
         /\ call[q].pc = "done" /\ call[q].seen = "revoked")
            => call[p].result = call[q].result

C7_Witness ==
    \E p, q \in Procs :
        /\ call[p].pc = "done" /\ call[p].seen = "absent"
        /\ call[q].pc = "done" /\ call[q].seen = "revoked"
        /\ call[p].result = Err("NotFound")

\* C8: a presented string that does not parse as an Api token ends the call at
\* once with the parse failure's error (InsecurelyGeneratedTokenRevoked): no
\* transaction is opened, no row is read and every row is unchanged.
C8_MalformedFailsWithoutLookup ==
    [][\A p \in Procs :
         (call[p].pc = "idle" /\ call'[p].pc # "idle"
            /\ Parse(call'[p].presented) = None)
             => /\ call'[p].pc = "done"
                /\ call'[p].result = Err("InsecurelyGeneratedTokenRevoked")
                /\ call'[p].seen = "none"
                /\ call'[p].pending = {}
                /\ rows' = rows]_vars

C8_Witness ==
    \E p \in Procs :
        /\ call[p].pc = "done"
        /\ Parse(call[p].presented) = None
        /\ call[p].result = Err("InsecurelyGeneratedTokenRevoked")
        /\ \E i \in 1..Len(rows) : rows[i].last_used_at # None

\* C9: the row an insert writes has revoked = false and last_used_at = None,
\* and the insert returns that stored row with the plaintext of the token
\* whose digest the row holds.
C9_InsertedRowStartsFresh ==
    [][Len(rows') > Len(rows)
         => LET n == Len(rows')
            IN /\ n = Len(rows) + 1
               /\ rows'[n].revoked = FALSE
               /\ rows'[n].last_used_at = None
               /\ Len(issued') = n
               /\ issued'[n].model = rows'[n]
               /\ Parse(issued'[n].plaintext) = Some(rows'[n].token)]_vars

C9_Witness ==
    /\ Len(rows) = 2
    /\ clock > 0
    /\ rows[2].created_at = clock
    /\ rows[2].last_used_at = None
    /\ rows[1].last_used_at # None

\* C10: no two non-revoked rows have the same hashed secret.
C10_ActiveDigestsUnique ==
    \A i, j \in 1..Len(rows) :
        (i # j /\ ~rows[i].revoked /\ ~rows[j].revoked)
            => rows[i].token # rows[j].token

C10_Witness ==
    /\ Len(rows) = 2
    /\ ~rows[1].revoked
    /\ ~rows[2].revoked
    /\ \E p \in Procs : call[p].pc = "done" /\ call[p].result.kind = "Ok"

\* The ids of the rows that the step changes.
Changed == {i \in 1..Len(rows) : i <= Len(rows') /\ rows'[i] # rows[i]}

\* C11: a step of find_by_api_token creates and deletes no row and changes at
\* most one row: a non-revoked row whose hashed secret is the digest of the
\* string the completing call presented, and of that row only last_used_at.
C11_FindChangesOnlyLastUsedAt ==
    [][call' # call
         => /\ Len(rows') = Len(rows)
            /\ Cardinality(Changed) <= 1
            /\ \A i \in Changed :
                 /\ rows'[i] = [rows[i] EXCEPT !.last_used_at = rows'[i].last_used_at]
                 /\ ~rows[i].revoked
                 /\ \E p \in Procs :
                      /\ Completes(p)
                      /\ Parse(call'[p].presented) = Some(rows[i].token)]_vars

C11_Witness ==
    \E p \in Procs : \E i, j \in 1..Len(rows) :
        /\ i # j
        /\ call[p].pc = "done"
        /\ call[p].result = Ok(rows[i])
        /\ rows[i].last_used_at # None
        /\ ~rows[j].revoked
        /\ rows[j].last_used_at = None

\* C12: insert_with_scopes stores crate_scopes and endpoint_scopes exactly as
\* passed, None staying None and an empty list staying an empty list, and
\* returns them in the model; insert stores None for both.
C12_ScopesStoredAsPassed ==
    [][/\ \A a \in InsertArgs :
            insert_with_scopes(a.user_id, a.crate_scopes, a.endpoint_scopes)
                => LET n == Len(rows')
                   IN /\ rows'[n].crate_scopes = a.crate_scopes
                      /\ rows'[n].endpoint_scopes = a.endpoint_scopes
                      /\ (rows'[n].crate_scopes = None) = (a.crate_scopes = None)
                      /\ (rows'[n].endpoint_scopes = None) = (a.endpoint_scopes = None)
                      /\ issued'[n].model.crate_scopes = a.crate_scopes
                      /\ issued'[n].model.endpoint_scopes = a.endpoint_scopes
       /\ \A u \in Users :
            insert(u)
                => LET n == Len(rows')
                   IN /\ rows'[n].crate_scopes = None
                      /\ rows'[n].endpoint_scopes = None]_vars

C12_Witness ==
    \E i, j \in 1..Len(rows) :
        /\ rows[i].crate_scopes = None
        /\ rows[i].endpoint_scopes = None
        /\ rows[j].crate_scopes = Some(<<>>)
        /\ rows[j].endpoint_scopes # None

\* C15: the commit of a touch stores the `now` of the call's transaction, which
\* is not None, as last_used_at of the matched row, and the call returns that
\* row as stored: a non-revoked row whose hashed secret is the presented digest.
C15_TouchReturnsUpdatedRow ==
    [][\A p \in Procs :
         (call[p].pc = "updated" /\ Completes(p))
             => /\ call'[p].result.kind = "Ok"
                /\ LET r == call'[p].result.row[1]
                   IN /\ r.last_used_at = Some(call[p].txnNow)
                      /\ r.last_used_at # None
                      /\ call[p].txnNow <= clock
                      /\ rows'[r.id] = r
                      /\ rows[r.id] = [r EXCEPT !.last_used_at = rows[r.id].last_used_at]
                      /\ Parse(call[p].presented) = Some(r.token)
                      /\ ~r.revoked]_vars

C15_Witness ==
    \E p \in Procs : \E i \in 1..Len(rows) :
        /\ dbMode = "writable"
        /\ clock = MaxClock
        /\ call[p].pc = "done"
        /\ call[p].result = Ok(rows[i])
        /\ rows[i].last_used_at = Some(clock)
        /\ rows[i].created_at < clock

\* C16: the rows that requests read change, in a step of find_by_api_token,
\* only at the commit of its touch transaction: the uncommitted update, a
\* touch that fails or is aborted, and the read after it leave every row,
\* last_used_at included, as it was.
C16_TouchVisibleOnlyOnCommit ==
    [][\A p \in Procs :
         (call'[p] # call[p] /\ ~(call[p].pc = "updated" /\ Completes(p)))
             => rows' = rows]_vars

C16_Witness ==
    \E p, q \in Procs : \E i \in 1..Len(rows) :
        /\ p # q
        /\ call[p].pc = "fallback"
        /\ call[p].touchErr = "Other"
        /\ i \in RowsOf(call[p].presented)
        /\ ~rows[i].revoked
        /\ rows[i].last_used_at = None
        /\ call[q].pc = "updated"
        /\ call[q].pending = {i}

\* C17: once a row is revoked it stays revoked and its last_used_at never
\* changes again, whatever calls are in progress.
C17_RevokedRowNeverTouched ==
    [][\A i \in 1..Len(rows) :
         rows[i].revoked
             => /\ rows'[i].revoked
                /\ rows'[i].last_used_at = rows[i].last_used_at]_vars

C17_Witness ==
    \E p \in Procs : \E i \in 1..Len(rows) :
        /\ call[p].pc = "fallback"
        /\ call[p].touchErr = "NotFound"
        /\ i \in RowsOf(call[p].presented)
        /\ rows[i].revoked
        /\ rows[i].last_used_at = None
        /\ rows[i].created_at = clock

\* C18: the read after a failed touch returns no row that is revoked when the
\* read runs: for a token whose row is revoked by then the call reports
\* NotFound (or the error of a read that itself fails).
C18_FallbackReadFiltersRevoked ==
    [][\A p \in Procs :
         (/\ call[p].pc = "fallback"
          /\ call[p].touchErr \in {"ReadOnly", "Other"}
          /\ Completes(p)
          /\ \E i \in RowsOf(call[p].presented) : rows[i].revoked)
             => \/ call'[p].result = Err("NotFound")
                \/ call'[p].result = Err("DatabaseError")]_vars

C18_Witness ==
    \E p, q \in Procs : \E i \in 1..Len(rows) :
        /\ p # q
        /\ rows[i].revoked
        /\ rows[i].last_used_at = None
        /\ i \in RowsOf(call[p].presented)
        /\ call[p].pc = "done"
        /\ call[p].result = Err("NotFound")
        /\ call[p].seen = "revoked"
        /\ call[q].pc = "done"
        /\ call[q].result = Ok([rows[i] EXCEPT !.revoked = FALSE])

\* The integer that four stored bytes hold.
StoredInteger == i32_from_sql(dep.bytes).row[1]

\* C13: a decoded column holding the integer 0, 1 or 2 is the variant whose
\* declared discriminant is that integer; a column holding any other integer
\* is an 'unknown kind' error that names the integer, never a variant.
C13_UnknownKindIsAnError ==
    (dep.result # NoResult /\ Len(dep.bytes) = 4)
        => /\ StoredInteger \in {0, 1, 2}
                => /\ dep.result.kind = "Ok"
                   /\ dep.result.row[1] \in DependencyKind
                   /\ Discriminant(dep.result.row[1]) = StoredInteger
           /\ StoredInteger \notin {0, 1, 2}
                => /\ dep.result.kind = "Err"
                   /\ dep.result.err = <<"unknown kind: ", StoredInteger>>
                   /\ dep.result.row = None

C13_Witness ==
    /\ dep.bytes = <<255, 255, 255, 255>>
    /\ dep.result = Err(<<"unknown kind: ", -1>>)

\* The value of SENTRY_DSN_API is a DSN string.
DsnIsValid ==
    /\ sentry.env["SENTRY_DSN_API"].unicode
    /\ Dsn_from_str(sentry.env["SENTRY_DSN_API"].value).kind = "Ok"

\* C14: after init, with SENTRY_DSN_API unset the client is initialized with
\* no DSN and no environment; with SENTRY_DSN_API set, unless it is a valid
\* DSN and SENTRY_ENV_API is set, init has panicked; HEROKU_SLUG_COMMIT when
\* present is the release, and a panic is never due to its absence.
C14_SentryInitContract ==
    sentry.pc # "start"
        => /\ ~sentry.env["SENTRY_DSN_API"].present
                => /\ sentry.pc = "initialized"
                   /\ sentry.opts[1].dsn = None
                   /\ sentry.opts[1].environment = None
           /\ (/\ sentry.env["SENTRY_DSN_API"].present
               /\ ~(DsnIsValid /\ sentry.env["SENTRY_ENV_API"].present))
                => sentry.pc = "panicked"
           /\ (sentry.pc = "initialized" /\ sentry.env["HEROKU_SLUG_COMMIT"].present)
                => /\ sentry.env["HEROKU_SLUG_COMMIT"].unicode
                   /\ sentry.opts[1].release = Some(sentry.env["HEROKU_SLUG_COMMIT"].value)
           /\ sentry.pc = "panicked" => sentry.env["SENTRY_DSN_API"].present

====
